---- MODULE Spec2Model ----
(***************************************************************************)
(* A model of edid-rs (src/src/lib.rs): the buffered byte Reader over an   *)
(* abstract Read source, and EDID::parse with its sub-parsers.             *)
(*                                                                         *)
(* Representation of values:                                               *)
(*   u8, u16        integers                                               *)
(*   u32            <<low 16 bits, high 16 bits>> where the value can      *)
(*                  exceed 2^31 - 1 (header words, serial_number, the      *)
(*                  range-limits pixel_clock); a plain integer otherwise   *)
(*   f32 = n / d    the numerator n (d is fixed by the field: 1024 for     *)
(*                  chromaticities, 100 for gamma, 10 for DetailedTiming   *)
(*                  image sizes, 2 for GTF c and j, 1000 for signal        *)
(*                  levels, 1 for max_size), aspect ratios as <<w, h>>     *)
(*   char, String   code points (u8 as char keeps the number), sequences   *)
(*   Option         [some |-> BOOLEAN, ...]                                *)
(*   Result<T>      [ok, fault, err, val, r]: r is the Reader afterwards;  *)
(*                  fault # "" is a panic                                  *)
(***************************************************************************)
EXTENDS Integers, Sequences, FiniteSets, TLC

\* ------------------------------------------------------------ bounds

\* Longest scripted prefix of source read outcomes (after it the source
\* behaves like std::io::Cursor and hands out all it has, up to the buffer).
MaxPlan == 1
\* Most bytes that may follow the 128-byte block in the source.
MaxTrailing == 1

\* ------------------------------------------------------------ helpers

\* Reader's buffer size: buffer.resize(128, 0).
BufSize == 128

\* A scripted source read returning None.
Fail == -1

Min(a, b) == IF a <= b THEN a ELSE b

\* (v >> lo) & (2^n - 1): the n bits of v from bit lo upwards.
Bits(v, lo, n) == (v \div (2 ^ lo)) % (2 ^ n)

\* v & (1 << k) > 0
Bit(v, k) == Bits(v, k, 1) = 1

Zeros(n) == [i \in 1..n |-> 0]

Ok(r, v) == [ok |-> TRUE, fault |-> "", err |-> "", val |-> v, r |-> r]

\* Err(msg)
Err(r, msg) == [ok |-> FALSE, fault |-> "", err |-> msg, val |-> 0, r |-> r]

\* A panic: an arithmetic overflow with overflow checks on, or unreachable!().
Panic(r, what) == [ok |-> FALSE, fault |-> what, err |-> "", val |-> 0, r |-> r]

\* The ? operator: res? followed by K of the value, or res itself when it is
\* an Err (or a panic).  res is evaluated once (x ranges over {res}).
Then(res, K(_)) == CHOOSE y \in {IF x.ok THEN K(x) ELSE x : x \in {res}} : TRUE

\* ensure(pred, msg)
ensure(r, pred, msg) == IF pred THEN Ok(r, TRUE) ELSE Err(r, msg)

\* ------------------------------------------------------------ Read, Reader

\* Read::read(buf) of a source holding `data`, of which `pos` bytes have been
\* delivered.  plan scripts the outcomes of the next reads: Fail is None, a
\* number c delivers min(c, what is left, the buffer's length) bytes (0: a
\* zero-length read).  With no script left the source delivers all it can,
\* as std::io::Cursor does.
Source_read(value, len) ==
    IF value.plan # <<>> /\ Head(value.plan) = Fail
    THEN [some |-> FALSE, num |-> 0, bytes |-> <<>>,
          value |-> [value EXCEPT !.plan = Tail(@)]]
    ELSE LET want == IF value.plan = <<>> THEN len ELSE Min(Head(value.plan), len)
             num  == Min(want, Len(value.data) - value.pos)
         IN  [some |-> TRUE, num |-> num,
              bytes |-> SubSeq(value.data, value.pos + 1, value.pos + num),
              value |-> [value EXCEPT !.pos = @ + num,
                                      !.plan = IF @ = <<>> THEN @ ELSE Tail(@)]]

\* Reader::new.  taken counts the bytes get has returned and out lists them,
\* polls counts the calls of value.read, last is what the latest of them
\* returned (Fail, or the number of bytes; -2: none yet), script is the
\* source's whole plan (history fields, not in the code).
Reader_new(data, plan) ==
    [value |-> [data |-> data, pos |-> 0, plan |-> plan, script |-> plan],
     buffer |-> <<>>, taken |-> 0, out |-> <<>>, polls |-> 0, last |-> -2]

\* C9 mutant: the buffer is not truncated to the number of bytes read.
Reader_refill_untruncated(r) ==
    IF Len(r.buffer) # 0 THEN Ok(r, 0)
    ELSE LET rd == Source_read(r.value, BufSize)
         IN  IF ~rd.some
             THEN Err([r EXCEPT !.buffer = Zeros(BufSize), !.value = rd.value,
                                !.polls = @ + 1, !.last = Fail],
                      "Error reading data!")
             ELSE Ok([r EXCEPT !.buffer = rd.bytes \o Zeros(BufSize - rd.num),
                               !.value = rd.value, !.polls = @ + 1,
                               !.last = rd.num],
                     rd.num)

\* Reader::get, the first if: with the buffer empty, resize it to 128 zeros,
\* read into it (returning the error if the read fails), truncate it to the
\* number of bytes read.
Reader_refill(r) ==
    IF Len(r.buffer) # 0 THEN Ok(r, 0)
    ELSE LET rd == Source_read(r.value, BufSize)
         IN  IF ~rd.some
             THEN Err([r EXCEPT !.buffer = Zeros(BufSize), !.value = rd.value,
                                !.polls = @ + 1, !.last = Fail],
                      "Error reading data!")
             ELSE Ok([r EXCEPT !.buffer = SubSeq(rd.bytes \o Zeros(BufSize - rd.num),
                                                 1, rd.num),
                               !.value = rd.value, !.polls = @ + 1,
                               !.last = rd.num],
                     rd.num)

\* C12 mutant: with the buffer empty after the refill, get returns a 0.
Reader_take_filler(r) ==
    IF Len(r.buffer) > 0
    THEN Ok([r EXCEPT !.buffer = Tail(@), !.taken = @ + 1,
                      !.out = Append(@, Head(r.buffer))], Head(r.buffer))
    ELSE Ok([r EXCEPT !.taken = @ + 1, !.out = Append(@, 0)], 0)

\* Reader::get, the second if: remove the buffer's first byte, or fail.
Reader_take(r) ==
    IF Len(r.buffer) > 0
    THEN Ok([r EXCEPT !.buffer = Tail(@), !.taken = @ + 1,
                      !.out = Append(@, Head(r.buffer))], Head(r.buffer))
    ELSE Err(r, "Unexpectedly out of data!")

\* Reader::get
Reader_get(r) == Then(Reader_refill(r), LAMBDA f : Reader_take(f.r))

\* Reader::read_u8
read_u8(r) == Reader_get(r)

\* n successive r.read_u8()?: the bytes in order, or the first error.
RECURSIVE read_bytes(_, _)
read_bytes(r, n) ==
    IF n = 0 THEN Ok(r, <<>>)
    ELSE Then(read_u8(r), LAMBDA g :
         Then(read_bytes(g.r, n - 1), LAMBDA rest :
         Ok(rest.r, <<g.val>> \o rest.val)))

\* Reader::read_u16 (little-endian)
read_u16(r) ==
    Then(read_u8(r), LAMBDA lo :
    Then(read_u8(lo.r), LAMBDA hi :
    Ok(hi.r, lo.val + hi.val * 256)))

\* Reader::read_u32 (little-endian), as <<low half, high half>>
read_u32(r) ==
    Then(read_u16(r), LAMBDA lo :
    Then(read_u16(lo.r), LAMBDA hi :
    Ok(hi.r, <<lo.val, hi.val>>)))

\* ------------------------------------------------------------ header

\* C1 mutant: the first header word is read and not compared.
Header1_parse_unchecked(r) ==
    Then(read_u32(r), LAMBDA w : Ok(w.r, TRUE))

\* EDID::parse, first statement: ensure(r.read_u32()? == 0xffffff00, ...)
Header1_parse(r) ==
    Then(read_u32(r), LAMBDA w :
    ensure(w.r, w.val = <<65280, 65535>>, "Invalid header."))

\* EDID::parse, second statement: ensure(r.read_u32()? == 0x00ffffff, ...)
Header2_parse(r) ==
    Then(read_u32(r), LAMBDA w :
    ensure(w.r, w.val = <<65535, 255>>, "Invalid header."))

\* ------------------------------------------------------------ product, version

\* ManufacturerID::parse
ManufacturerID_parse(r) ==
    Then(read_u16(r), LAMBDA k :
    Ok(k.r, <<Bits(k.val, 10, 5), Bits(k.val, 5, 5), Bits(k.val, 0, 5)>>))

\* C11 mutant: the year counts from 1900.
ManufactureDate_parse_1900(r) ==
    Then(read_bytes(r, 2), LAMBDA b :
    Ok(b.r, [week |-> b.val[1], year |-> b.val[2] + 1900]))

\* ManufactureDate::parse
ManufactureDate_parse(r) ==
    Then(read_bytes(r, 2), LAMBDA b :
    Ok(b.r, [week |-> b.val[1], year |-> b.val[2] + 1990]))

\* ProductInformation::parse
ProductInformation_parse(r) ==
    Then(ManufacturerID_parse(r), LAMBDA m :
    Then(read_u16(m.r), LAMBDA p :
    Then(read_u32(p.r), LAMBDA s :
    Then(ManufactureDate_parse(s.r), LAMBDA d :
    Ok(d.r, [manufacturer_id |-> m.val, product_code |-> p.val,
             serial_number |-> s.val, manufacture_date |-> d.val])))))

\* Version::parse
Version_parse(r) ==
    Then(read_bytes(r, 2), LAMBDA b :
    Ok(b.r, [version |-> b.val[1], revision |-> b.val[2]]))

\* ------------------------------------------------------------ display

\* The signal levels in millivolts, by the 2-bit selector.
SignalLevel(sel) ==
    CASE sel = 0 -> [high |-> 700, low |-> 300]
      [] sel = 1 -> [high |-> 714, low |-> 286]
      [] sel = 2 -> [high |-> 1000, low |-> 400]
      [] sel = 3 -> [high |-> 700, low |-> 0]

\* VideoInput::parse
VideoInput_parse(r) ==
    Then(read_u8(r), LAMBDA b :
    LET val == b.val
        sel == Bits(val, 5, 2)
    IN  IF ~Bit(val, 7)
        THEN IF sel \notin 0..3 THEN Panic(b.r, "unreachable")
             ELSE Ok(b.r, [kind |-> "Analog", signal_level |-> SignalLevel(sel),
                           setup_expected |-> Bit(val, 4),
                           supported_sync |-> [serrated_vsync |-> Bit(val, 3),
                                               sync_on_green |-> Bit(val, 2),
                                               composite_sync |-> Bit(val, 1),
                                               seperate_sync |-> Bit(val, 0)]])
        ELSE Ok(b.r, [kind |-> "Digital", dfp_compatible |-> Bit(val, 0)]))

\* The display type by the 2-bit selector.
DisplayType(sel) ==
    CASE sel = 0 -> "Monochrome"
      [] sel = 1 -> "RGBColor"
      [] sel = 2 -> "OtherColor"
      [] sel = 3 -> "Undefined"

\* DPMSFeatures::parse
DPMSFeatures_parse(r) ==
    Then(read_u8(r), LAMBDA b :
    LET val == b.val
        sel == Bits(val, 3, 2)
    IN  IF sel \notin 0..3 THEN Panic(b.r, "unreachable")
        ELSE Ok(b.r, [standby_supported |-> Bit(val, 7),
                      suspend_supported |-> Bit(val, 6),
                      low_power_supported |-> Bit(val, 5),
                      display_type |-> DisplayType(sel),
                      default_srgb |-> Bit(val, 2),
                      preferred_timing_mode |-> Bit(val, 1),
                      default_gtf_supported |-> Bit(val, 0)]))

\* DisplayParameters::parse (max_size in whole centimetres, gamma in hundredths)
DisplayParameters_parse(r) ==
    Then(VideoInput_parse(r), LAMBDA input :
    Then(read_bytes(input.r, 2), LAMBDA wh :
    Then(read_u8(wh.r), LAMBDA g :
    Then(DPMSFeatures_parse(g.r), LAMBDA dpms :
    LET max_size == IF wh.val[1] = 0 \/ wh.val[2] = 0
                    THEN [some |-> FALSE, width |-> 0, height |-> 0]
                    ELSE [some |-> TRUE, width |-> wh.val[1], height |-> wh.val[2]]
        gamma == IF g.val = 255 THEN [some |-> FALSE, hundredths |-> 0]
                 ELSE [some |-> TRUE, hundredths |-> g.val + 100]
    IN  Ok(dpms.r, [input |-> input.val, max_size |-> max_size,
                    gamma |-> gamma, dpms |-> dpms.val])))))

\* ------------------------------------------------------------ color

\* ColorCharacteristics::parse (coordinates as numerators over 1024)
ColorCharacteristics_parse(r) ==
    Then(read_bytes(r, 10), LAMBDA b :
    LET rg_low == b.val[1]
        bw_low == b.val[2]
    IN  Ok(b.r, [red   |-> <<b.val[3] * 4 + Bits(rg_low, 6, 2),
                             b.val[4] * 4 + Bits(rg_low, 4, 2)>>,
                 green |-> <<b.val[5] * 4 + Bits(rg_low, 2, 2),
                             b.val[6] * 4 + Bits(rg_low, 0, 2)>>,
                 blue  |-> <<b.val[7] * 4 + Bits(bw_low, 6, 2),
                             b.val[8] * 4 + Bits(bw_low, 4, 2)>>,
                 white |-> <<b.val[9] * 4 + Bits(bw_low, 2, 2),
                             b.val[10] * 4 + Bits(bw_low, 0, 2)>>,
                 white_points |-> <<>>]))

\* ------------------------------------------------------------ timing tables

\* C8 mutant: the modes of bits 0 and 7 change places.
EstablishedByBit_swapped ==
    <<"H720V400F70", "H800V600F56", "H640V480F75", "H640V480F72",
      "H640V480F67", "H640V480F60", "H720V400F88", "H800V600F60",
      "H1280V1024F75", "H1024V768F75", "H1024V768F70", "H1024V768F60",
      "H1024V768F87", "H832V624F75", "H800V600F75", "H800V600F72">>

\* The established timing each bit of the 16-bit word pushes, in the order
\* of the tests (ft & 1, then ft >>= 1, ...): entry i is for bit i - 1.
EstablishedByBit ==
    <<"H800V600F60", "H800V600F56", "H640V480F75", "H640V480F72",
      "H640V480F67", "H640V480F60", "H720V400F88", "H720V400F70",
      "H1280V1024F75", "H1024V768F75", "H1024V768F70", "H1024V768F60",
      "H1024V768F87", "H832V624F75", "H800V600F75", "H800V600F72">>

\* Timings::parse, the tests of ft from bit `bit` upwards, pushing to acc.
RECURSIVE EstablishedFrom(_, _, _)
EstablishedFrom(ft, bit, acc) ==
    IF bit = 16 THEN acc
    ELSE EstablishedFrom(ft, bit + 1,
             IF Bit(ft, bit) THEN Append(acc, EstablishedByBit[bit + 1]) ELSE acc)

\* Timings::parse, the sixteen tests of ft and the test of bit 7 of the next byte.
EstablishedTimings(ft, last) ==
    EstablishedFrom(ft, 0, <<>>)
        \o (IF Bit(last, 7) THEN <<"H1152V870F75">> ELSE <<>>)

\* The aspect ratio by the 2-bit selector high >> 6.
AspectRatio(sel) ==
    CASE sel = 0 -> <<16, 10>>
      [] sel = 1 -> <<4, 3>>
      [] sel = 2 -> <<5, 4>>
      [] sel = 3 -> <<16, 9>>

\* StandardTiming { ... } of one entry (low, high)
StandardTiming(low, high) ==
    [horizontal_resolution |-> (low + 31) * 8,
     aspect_ratio |-> AspectRatio(Bits(high, 6, 2)),
     refresh_rate |-> Bits(high, 0, 6) + 60]

\* C6 mutant: an entry is skipped when either of its bytes is 0x01.
IsUnusedEntry_either(low, high) == low = 1 \/ high = 1

\* The test that skips an entry: low == 1 && high == 1
IsUnusedEntry(low, high) == low = 1 /\ high = 1

\* One pass of a standard-timing loop body: read low and high, skip or push.
StandardEntry(r, acc) ==
    Then(read_u8(r), LAMBDA low :
    Then(read_u8(low.r), LAMBDA high :
    IF IsUnusedEntry(low.val, high.val) THEN Ok(high.r, acc)
    ELSE IF Bits(high.val, 6, 2) \notin 0..3 THEN Panic(high.r, "unreachable")
    ELSE Ok(high.r, Append(acc, StandardTiming(low.val, high.val)))))

\* for _ in 0..n { ... } over standard-timing entries, pushing to acc
RECURSIVE StandardLoop(_, _, _)
StandardLoop(r, n, acc) ==
    IF n = 0 THEN Ok(r, acc)
    ELSE Then(StandardEntry(r, acc), LAMBDA e : StandardLoop(e.r, n - 1, e.val))

\* Timings::parse
Timings_parse(r) ==
    Then(read_u16(r), LAMBDA ft :
    Then(read_u8(ft.r), LAMBDA last :
    Then(StandardLoop(last.r, 8, <<>>), LAMBDA std :
    Ok(std.r, [established_timings |-> EstablishedTimings(ft.val, last.val),
               standard_timings |-> std.val,
               detailed_timings |-> <<>>]))))

\* ------------------------------------------------------------ detailed timing

\* The stereo type by bits 6, 5 and 0.
StereoType(b6, b5, b0) ==
    CASE ~b6 /\ ~b5        -> "None"
      [] ~b6 /\ b5 /\ ~b0  -> "SequentialRightSync"
      [] b6 /\ ~b5 /\ ~b0  -> "SequentialLeftSync"
      [] ~b6 /\ b5 /\ b0   -> "InterleavedLinesRightEven"
      [] b6 /\ ~b5 /\ b0   -> "InterleavedLinesLeftEven"
      [] b6 /\ b5 /\ ~b0   -> "Interleaved4Way"
      [] b6 /\ b5 /\ b0    -> "SideBySide"

Polarity(b) == IF b THEN "Positive" ELSE "Negative"

\* The sync type by the 2-bit selector and bits 2 and 1.
SyncType(sel, b2, b1) ==
    CASE sel \in {0, 1} ->
             [kind |-> "Composite", serrated |-> b2,
              line |-> IF b1 THEN "RGB" ELSE "Green"]
      [] sel = 2 ->
             [kind |-> "Composite", serrated |-> b2,
              line |-> IF b1 THEN "Digital(Positive)" ELSE "Digital(Negative)"]
      [] sel = 3 ->
             [kind |-> "Seperate", vertical |-> Polarity(b2),
              horizontal |-> Polarity(b1)]

\* SyncType::parse
SyncType_parse(r) ==
    Then(read_u8(r), LAMBDA b :
    LET val == b.val
        sel == Bits(val, 3, 2)
    IN  IF sel \notin 0..3 THEN Panic(b.r, "unreachable")
        ELSE Ok(b.r, [interlaced |-> Bit(val, 7),
                      stereo |-> StereoType(Bit(val, 6), Bit(val, 5), Bit(val, 0)),
                      sync_type |-> SyncType(sel, Bit(val, 2), Bit(val, 1))]))

\* Ok(None)
NoTiming == [some |-> FALSE]

\* The u16 subtraction blanking - sync_width - front_porch: whether it
\* overflows, and its wrapped value.
BackPorchOverflows(blanking, sync_width, front_porch) ==
    blanking - sync_width < 0 \/ blanking - sync_width - front_porch < 0

BackPorch(blanking, sync_width, front_porch) ==
    (blanking - sync_width - front_porch) % 65536

\* DetailedTiming::parse from the read of hso_low on (the slot's bytes 8 to
\* 17), given the active and blanking values.
DetailedTiming_rest(r, overflow_checks, pixel_clock, active, blanking) ==
    Then(read_bytes(r, 4), LAMBDA s :
    LET hso_low  == s.val[1]
        hsw_low  == s.val[2]
        vs_low   == s.val[3]
        hvs_high == s.val[4]
        vertical_front_porch   == Bits(vs_low, 4, 4) + Bits(hvs_high, 2, 2) * 16
        horizontal_front_porch == hso_low + Bits(hvs_high, 6, 2) * 256
        vertical_sync_width    == Bits(vs_low, 0, 4) + Bits(hvs_high, 0, 2) * 16
        horizontal_sync_width  == hsw_low + Bits(hvs_high, 4, 2) * 256
        overflows ==
            \/ BackPorchOverflows(blanking[1], horizontal_sync_width,
                                  horizontal_front_porch)
            \/ BackPorchOverflows(blanking[2], vertical_sync_width,
                                  vertical_front_porch)
        back_porch ==
            <<BackPorch(blanking[1], horizontal_sync_width, horizontal_front_porch),
              BackPorch(blanking[2], vertical_sync_width, vertical_front_porch)>>
    IN  IF overflow_checks /\ overflows THEN Panic(s.r, "overflow")
        ELSE
        Then(read_bytes(s.r, 3), LAMBDA z :
        Then(read_bytes(z.r, 2), LAMBDA bd :
        Then(SyncType_parse(bd.r), LAMBDA sy :
        Ok(sy.r, [some |-> TRUE, timing |->
            [pixel_clock |-> pixel_clock,
             active |-> active,
             front_porch |-> <<horizontal_front_porch, vertical_front_porch>>,
             sync_length |-> <<horizontal_sync_width, vertical_sync_width>>,
             back_porch |-> back_porch,
             image_size |-> [width  |-> z.val[1] + Bits(z.val[3], 4, 4) * 256,
                             height |-> z.val[2] + Bits(z.val[3], 0, 4) * 256],
             border |-> <<bd.val[1], bd.val[2]>>,
             interlaced |-> sy.val.interlaced,
             stereo |-> sy.val.stereo,
             sync_type |-> sy.val.sync_type]])))))

\* DetailedTiming::parse from the read of hb_low on (the slot's bytes 3 to
\* 17).  overflow_checks: the build panics on an integer overflow (a debug
\* build) instead of wrapping (a release build).
DetailedTiming_active(r, overflow_checks, pixel_clock, ha_low) ==
    Then(read_u8(r), LAMBDA hb_low :
    Then(read_u8(hb_low.r), LAMBDA h_high :
    LET horizontal_active   == ha_low + Bits(h_high.val, 4, 4) * 256
        horizontal_blanking == hb_low.val + Bits(h_high.val, 0, 4) * 256
    IN  IF horizontal_active = 0 THEN Ok(h_high.r, NoTiming)
        ELSE
        Then(read_bytes(h_high.r, 3), LAMBDA v :
        LET vertical_active   == v.val[1] + Bits(v.val[3], 4, 4) * 256
            vertical_blanking == v.val[2] + Bits(v.val[3], 0, 4) * 256
        IN  DetailedTiming_rest(v.r, overflow_checks, pixel_clock,
                                <<horizontal_active, vertical_active>>,
                                <<horizontal_blanking, vertical_blanking>>))))

\* C4 mutant: a pixel clock of 0 does not end the decoding of a timing.
DetailedTiming_parse_nosentinel(r, overflow_checks) ==
    Then(read_u16(r), LAMBDA pc16 :
    Then(read_u8(pc16.r), LAMBDA ha_low :
    DetailedTiming_active(ha_low.r, overflow_checks, pc16.val * 10000,
                          ha_low.val)))

\* DetailedTiming::parse: the pixel clock, ha_low, if pixel_clock == 0
\* { return Ok(None) }, and the rest.
DetailedTiming_parse(r, overflow_checks) ==
    Then(read_u16(r), LAMBDA pc16 :
    Then(read_u8(pc16.r), LAMBDA ha_low :
    IF pc16.val * 10000 = 0 THEN Ok(ha_low.r, NoTiming)
    ELSE DetailedTiming_active(ha_low.r, overflow_checks, pc16.val * 10000,
                               ha_low.val)))

\* ------------------------------------------------------------ descriptors

\* ensure(r.read_u8()? == want, msg)?
expect_u8(r, want, msg) ==
    Then(read_u8(r), LAMBDA b : ensure(b.r, b.val = want, msg))

\* ensure(r.read_u16()? == want, msg)?
expect_u16(r, want, msg) ==
    Then(read_u16(r), LAMBDA w : ensure(w.r, w.val = want, msg))

\* The locals of MonitorDescriptors::parse after its first statement.
\* slots is a history of the loop's passes (the first statement is its
\* entry 1): where each began (bytes taken before it), whether it took the
\* timing branch, the tag it read (-1: none), where it ended (-1: not yet).
NewLocals(timing, start, end) ==
    [detailed_timings |-> <<timing>>, standard_timings |-> <<>>,
     monitor_descriptors |-> <<>>, white_points |-> <<>>,
     slots |-> <<[start |-> start, timing |-> TRUE, tag |-> -1, end |-> end]>>]

\* C19 mutant: the raw descriptors take 12 of the 13 payload bytes.
Raw_parse_short(r, tag, acc) ==
    Then(read_bytes(r, 12), LAMBDA b :
    Ok(b.r, [acc EXCEPT !.monitor_descriptors =
                 Append(@, [kind |-> IF tag <= 15 THEN "ManufacturerDefined"
                                     ELSE "Undefined",
                            tag |-> tag, data |-> b.val])]))

\* Tags 0x00..=0x0f and 0x11..=0xf9: thirteen raw bytes.
Raw_parse(r, tag, acc) ==
    Then(read_bytes(r, 13), LAMBDA b :
    Ok(b.r, [acc EXCEPT !.monitor_descriptors =
                 Append(@, [kind |-> IF tag <= 15 THEN "ManufacturerDefined"
                                     ELSE "Undefined",
                            tag |-> tag, data |-> b.val])]))

\* Tag 0x10: continue
Padding_parse(r, acc) == Ok(r, acc)

\* Tag 0xfa: six standard timings and the 0x0a byte.
StandardTimings_parse(r, acc) ==
    Then(StandardLoop(r, 6, acc.standard_timings), LAMBDA std :
    Then(expect_u8(std.r, 10, "Expected 0x0a in monitor descriptor."), LAMBDA e :
    Ok(e.r, [acc EXCEPT !.standard_timings = std.val])))

\* WhitePoint { ... } of the entry bytes (index, w_low, wx_high, wy_high,
\* gamma_val); x and y as numerators over 1024, gamma in hundredths.
WhitePoint(b) ==
    [index |-> b[1],
     x |-> b[3] * 4 + Bits(b[2], 2, 2),
     y |-> b[4] * 4 + Bits(b[2], 0, 2),
     gamma |-> b[5] + 100]

\* Tag 0xfb, the loop for _ in 0..2: pushes each entry, and after an entry
\* of index 0 reads a u32 and a u8 and breaks.
RECURSIVE WhiteLoop(_, _, _)
WhiteLoop(r, n, points) ==
    IF n = 0 THEN Ok(r, points)
    ELSE Then(read_bytes(r, 5), LAMBDA b :
         IF b.val[1] = 0
         THEN Then(read_u32(b.r), LAMBDA skip4 :
              Then(read_u8(skip4.r), LAMBDA skip1 :
              Ok(skip1.r, Append(points, WhitePoint(b.val)))))
         ELSE WhiteLoop(b.r, n - 1, Append(points, WhitePoint(b.val))))

\* Tag 0xfb: the white points, the 0x0a byte and the 0x2020 word.
WhitePoints_parse(r, acc) ==
    Then(WhiteLoop(r, 2, acc.white_points), LAMBDA w :
    Then(expect_u8(w.r, 10, "Expected 0x0a in monitor descriptor."), LAMBDA e1 :
    Then(expect_u16(e1.r, 8224, "Expected 0x20 in monitor descriptor."), LAMBDA e2 :
    Ok(e2.r, [acc EXCEPT !.white_points = w.val]))))

\* Tags 0xfc, 0xfe, 0xff: while byte != 0x0a { out.push(byte as char);
\* i += 1; if i == 13 { break }; byte = r.read_u8()? }
RECURSIVE TextLoop(_, _, _, _)
TextLoop(r, byte, out, i) ==
    IF byte = 10 THEN Ok(r, [out |-> out, i |-> i])
    ELSE IF i + 1 = 13 THEN Ok(r, [out |-> Append(out, byte), i |-> i + 1])
    ELSE Then(read_u8(r), LAMBDA b : TextLoop(b.r, b.val, Append(out, byte), i + 1))

\* C7 mutant: the padding loop stops one byte early.
RECURSIVE PadLoop_short(_, _)
PadLoop_short(r, i) ==
    IF ~(i < 12) THEN Ok(r, TRUE)
    ELSE Then(expect_u8(r, 32, "Expected 0x20 in monitor descriptor."), LAMBDA e :
         PadLoop_short(e.r, i + 1))

\* while i < 13 { ensure(r.read_u8()? == 0x20, ...)?; i += 1 }
RECURSIVE PadLoop(_, _)
PadLoop(r, i) ==
    IF ~(i < 13) THEN Ok(r, TRUE)
    ELSE Then(expect_u8(r, 32, "Expected 0x20 in monitor descriptor."), LAMBDA e :
         PadLoop(e.r, i + 1))

\* The descriptor a text tag pushes.
TextKind(tag) ==
    CASE tag = 252 -> "MonitorName"
      [] tag = 254 -> "OtherString"
      [] tag = 255 -> "SerialNumber"

\* Tags 0xfc, 0xfe, 0xff
Text_parse(r, tag, acc) ==
    Then(read_u8(r), LAMBDA first :
    Then(TextLoop(first.r, first.val, <<>>, 0), LAMBDA t :
    Then(PadLoop(t.r, t.val.i + 1), LAMBDA pad :
    IF tag \notin {252, 254, 255} THEN Panic(pad.r, "unreachable")
    ELSE Ok(pad.r, [acc EXCEPT !.monitor_descriptors =
                        Append(@, [kind |-> TextKind(tag), text |-> t.val.out])]))))

\* byte as u32 * 10000000, as <<low half, high half>> (10000000 = 152 * 2^16 + 38528)
TimesTenMillion(b) == <<(b * 38528) % 65536, b * 152 + (b * 38528) \div 65536>>

\* Tag 0xfd, stime 0x00
SecondaryNone_parse(r) ==
    Then(expect_u8(r, 10, "Expected 0x0a in monitor descriptor."), LAMBDA e1 :
    Then(expect_u16(e1.r, 8224, "Expected 0x20 in monitor descriptor."), LAMBDA e2 :
    Then(expect_u16(e2.r, 8224, "Expected 0x20 in monitor descriptor."), LAMBDA e3 :
    Then(expect_u16(e3.r, 8224, "Expected 0x20 in monitor descriptor."), LAMBDA e4 :
    Ok(e4.r, [kind |-> "None"])))))

\* Tag 0xfd, stime 0x02 (c and j as numerators over 2)
SecondaryGTF_parse(r) ==
    Then(expect_u8(r, 0, "Expected 0x0a in monitor descriptor."), LAMBDA e :
    Then(read_bytes(e.r, 2), LAMBDA sc :
    Then(read_u16(sc.r), LAMBDA m :
    Then(read_bytes(m.r, 2), LAMBDA kj :
    Ok(kj.r, [kind |-> "GTF", start_horizontal_freq |-> sc.val[1] * 2000,
              c |-> sc.val[2], m |-> m.val, k |-> kj.val[1], j |-> kj.val[2]])))))

\* Tag 0xfd, any other stime
SecondaryOther_parse(r, stime) ==
    Then(read_bytes(r, 7), LAMBDA b :
    Ok(b.r, [kind |-> "Other", stime |-> stime, data |-> b.val]))

\* Tag 0xfd, the match on stime
SecondaryTiming_parse(r, stime) ==
    CASE stime = 0 -> SecondaryNone_parse(r)
      [] stime = 2 -> SecondaryGTF_parse(r)
      [] OTHER     -> SecondaryOther_parse(r, stime)

\* Tag 0xfd
RangeLimits_parse(r, acc) ==
    Then(read_bytes(r, 6), LAMBDA b :
    Then(SecondaryTiming_parse(b.r, b.val[6]), LAMBDA sec :
    Ok(sec.r, [acc EXCEPT !.monitor_descriptors =
                   Append(@, [kind |-> "RangeLimits",
                              vertical_rate |-> <<b.val[1], b.val[2]>>,
                              horizontal_rate |-> <<b.val[3] * 1000, b.val[4] * 1000>>,
                              pixel_clock |-> TimesTenMillion(b.val[5]),
                              secondary_timing |-> sec.val])])))

\* MonitorDescriptors::parse, the match on the tag
Tag_parse(r, tag, acc) ==
    CASE tag <= 15               -> Raw_parse(r, tag, acc)
      [] tag = 16                -> Padding_parse(r, acc)
      [] tag >= 17 /\ tag <= 249 -> Raw_parse(r, tag, acc)
      [] tag = 250               -> StandardTimings_parse(r, acc)
      [] tag = 251               -> WhitePoints_parse(r, acc)
      [] tag \in {252, 254, 255} -> Text_parse(r, tag, acc)
      [] tag = 253               -> RangeLimits_parse(r, acc)

\* MonitorDescriptors::parse, the else branch of the loop body: the tag, the
\* byte after it, and the match on the tag.
Descriptor_parse(r, acc) ==
    Then(read_u8(r), LAMBDA tag :
    Then(read_u8(tag.r), LAMBDA reserved :
    Tag_parse(reserved.r, tag.val,
              [acc EXCEPT !.slots[Len(acc.slots)].tag = tag.val])))

\* MonitorDescriptors::parse, first statement:
\* vec![DetailedTiming::parse(r)?.ok_or("Expected detailed timing block.")?]
FirstSlot_parse(r, overflow_checks) ==
    Then(DetailedTiming_parse(r, overflow_checks), LAMBDA t :
    IF ~t.val.some THEN Err(t.r, "Expected detailed timing block.")
    ELSE Ok(t.r, NewLocals(t.val.timing, r.taken, t.r.taken)))

\* History: the pass that ends with the reader r is over.
EndPass(r, acc) == [acc EXCEPT !.slots[Len(acc.slots)].end = r.taken]

\* MonitorDescriptors::parse, one pass of for _ in 0..3
Slot_parse(r, overflow_checks, acc) ==
    Then(DetailedTiming_parse(r, overflow_checks), LAMBDA t :
    Then(LET acc1 == [acc EXCEPT !.slots =
                          Append(@, [start |-> r.taken, timing |-> t.val.some,
                                     tag |-> -1, end |-> -1])]
         IN  IF t.val.some
             THEN Ok(t.r, [acc1 EXCEPT !.detailed_timings = Append(@, t.val.timing)])
             ELSE Descriptor_parse(t.r, acc1),
         LAMBDA d : Ok(d.r, EndPass(d.r, d.val))))

\* MonitorDescriptors::parse, the loop from pass n on
RECURSIVE SlotLoop(_, _, _, _)
SlotLoop(r, overflow_checks, n, acc) ==
    IF n = 0 THEN Ok(r, acc)
    ELSE Then(Slot_parse(r, overflow_checks, acc), LAMBDA s :
         SlotLoop(s.r, overflow_checks, n - 1, s.val))

\* MonitorDescriptors::parse
MonitorDescriptors_parse(r, overflow_checks) ==
    Then(FirstSlot_parse(r, overflow_checks), LAMBDA f :
    SlotLoop(f.r, overflow_checks, 3, f.val))

\* EDID::parse from the appends to the end: merge the descriptors' lists, read
\* the extension count, build the EDID.
Finish_parse(r, product, version, display, color, timings, locals) ==
    Then(read_u8(r), LAMBDA e :
    Ok(e.r, [product |-> product, version |-> version, display |-> display,
             color |-> [color EXCEPT !.white_points = @ \o locals.white_points],
             timings |-> [timings EXCEPT
                             !.detailed_timings = @ \o locals.detailed_timings,
                             !.standard_timings = @ \o locals.standard_timings],
             descriptors |-> locals.monitor_descriptors,
             extensions |-> e.val]))

\* EDID::parse
EDID_parse(r, overflow_checks) ==
    Then(Header1_parse(r), LAMBDA h1 :
    Then(Header2_parse(h1.r), LAMBDA h2 :
    Then(ProductInformation_parse(h2.r), LAMBDA p :
    Then(Version_parse(p.r), LAMBDA v :
    Then(DisplayParameters_parse(v.r), LAMBDA d :
    Then(ColorCharacteristics_parse(d.r), LAMBDA c :
    Then(Timings_parse(c.r), LAMBDA t :
    Then(MonitorDescriptors_parse(t.r, overflow_checks), LAMBDA m :
    Finish_parse(m.r, p.val, v.val, d.val, c.val, t.val, m.val)))))))))

\* parse(value)
parse(data, plan, overflow_checks) == EDID_parse(Reader_new(data, plan), overflow_checks)

\* ------------------------------------------------------------ inputs

\* examples/sample.rs: the EDID block of a MacBook Pro.
Sample ==
    <<  0, 255, 255, 255, 255, 255, 255,   0,
        6,  16,  34, 160,   0,   0,   0,   0,
        4,  23,   1,   4, 165,  33,  21, 120,
        2, 111, 177, 167,  85,  76, 158,  37,
       12,  80,  84,   0,   0,   0,   1,   1,
        1,   1,   1,   1,   1,   1,   1,   1,
        1,   1,   1,   1,   1,   1, 239, 131,
       64, 160, 176,   8,  52, 112,  48,  32,
       54,   0,  75, 207,  16,   0,   0,  26,
        0,   0,   0, 252,   0,  67, 111, 108,
      111, 114,  32,  76,  67,  68,  10,  32,
       32,  32,   0,   0,   0,  16,   0,   0,
        0,   0,   0,   0,   0,   0,   0,   0,
        0,   0,   0,   0,   0,   0,   0,  16,
        0,   0,   0,   0,   0,   0,   0,   0,
        0,   0,   0,   0,   0,   0,   0, 222>>

With(seq, i, v) == [seq EXCEPT ![i] = v]

Fill(n, v) == [i \in 1..n |-> v]

\* The sample's bytes before the four 18-byte slots, and after them with an
\* extension count of 2.
SampleHead == SubSeq(Sample, 1, 54)
Tail2 == <<2, 222>>

\* Timing slots: the sample's; one with another pixel clock; back porches
\* that underflow (horizontally at the second subtraction, horizontally at
\* the first, vertically); a back porch of exactly 0; a nonzero pixel clock
\* with a horizontal active of 0.
TimingA  == SubSeq(Sample, 55, 72)
TimingB  == With(TimingA, 1, 1)
HUnder2  == With(TimingA, 4, 40)
HUnder1  == With(TimingA, 4, 10)
VUnder   == With(TimingA, 7, 5)
ZeroBack == With(With(TimingA, 4, 80), 7, 9)
NoActive == With(With(TimingA, 3, 0), 5, 0)

\* A slot with a zero leading word: the third byte, the tag, the byte after
\* it, and 13 payload bytes.
Desc(tag, payload) == <<0, 0, 0, tag, 0>> \o payload

Count13 == [i \in 1..13 |-> 100 + i]

\* A text payload: n characters, 0x0a, 0x20 up to 13 bytes, and byte `bad`
\* (0: none) replaced by a byte that is not 0x20.
TextPayload(n, bad) ==
    [i \in 1..13 |-> IF i = bad THEN 66
                     ELSE IF i <= n THEN 64 + i
                     ELSE IF i = n + 1 THEN 10 ELSE 32]

TextPayloads ==
    {TextPayload(n, 0) : n \in 0..13}
    \cup {TextPayload(n, bad) : n \in {0, 5, 11}, bad \in {7, 13}}
    \cup {With(TextPayload(4, 0), 9, 10)}

\* Standard-timing payloads (tag 0xfa): six entries and the terminator.
StdPayloads ==
    { <<1, 1, 1, 1, 1, 1, 1, 1, 1, 1, 1, 1, 10>>,
      <<129, 192, 1, 1, 1, 0, 0, 1, 1, 1, 255, 255, 10>>,
      <<1, 1, 97, 64, 1, 1, 1, 1, 1, 1, 1, 1, 10>>,
      <<97, 64, 1, 1, 1, 1, 1, 1, 1, 1, 1, 1, 32>> }

\* White-point payloads (tag 0xfb): first index 0; first nonzero and second
\* 0; both nonzero; and wrong terminator or guard bytes.
WhitePayloads ==
    { <<0, 6, 80, 84, 120, 9, 9, 9, 9, 9, 10, 32, 32>>,
      <<1, 6, 80, 84, 120, 0, 7, 81, 85, 121, 10, 32, 32>>,
      <<1, 6, 80, 84, 120, 2, 7, 81, 85, 121, 10, 32, 32>>,
      <<1, 6, 80, 84, 120, 2, 7, 81, 85, 121, 11, 32, 32>>,
      <<1, 6, 80, 84, 120, 2, 7, 81, 85, 121, 10, 32, 33>>,
      <<0, 6, 80, 84, 120, 9, 9, 9, 9, 9, 10, 33, 32>> }

\* Range-limit payloads (tag 0xfd): stime 0x00, 0x02 and another, right and wrong.
RangePayloads ==
    { <<50, 75, 30, 80, 17, 0, 10, 32, 32, 32, 32, 32, 32>>,
      <<50, 75, 30, 80, 17, 0, 10, 32, 32, 32, 32, 32, 0>>,
      <<50, 75, 30, 80, 17, 0, 32, 32, 32, 32, 32, 32, 32>>,
      <<50, 75, 30, 80, 255, 2, 0, 10, 20, 44, 1, 30, 40>>,
      <<50, 75, 30, 80, 17, 2, 10, 10, 20, 44, 1, 30, 40>>,
      <<50, 75, 30, 80, 17, 1, 1, 2, 3, 4, 5, 6, 7>> }

Name   == Desc(252, TextPayload(9, 0))
PadZero == Desc(16, Fill(13, 0))

\* Every slot tried in one of the slots 1 to 3.
Slots ==
    {TimingA, TimingB, HUnder2, HUnder1, VUnder, ZeroBack, NoActive}
    \cup {Desc(tag, Count13) : tag \in {0, 15, 17, 249}}
    \cup {PadZero, Desc(16, Count13), Desc(16, Fill(13, 32))}
    \cup {Desc(250, p) : p \in StdPayloads}
    \cup {Desc(251, p) : p \in WhitePayloads}
    \cup {Desc(252, p) : p \in TextPayloads}
    \cup {Desc(tag, TextPayload(n, bad)) : tag \in {254, 255}, n \in {3}, bad \in {0, 13}}
    \cup {Desc(253, p) : p \in RangePayloads}

\* The slots beside the one that varies.
Fixed == {TimingB, Name, PadZero}

\* Blocks whose slots vary.
SlotInputs ==
    {SampleHead \o s0 \o Name \o PadZero \o TimingB \o Tail2 :
        s0 \in {TimingA, HUnder2, VUnder, ZeroBack, NoActive, Name, PadZero}}
    \cup {SubSeq(SampleHead \o Name, 1, n) : n \in 55..58}
    \cup {SampleHead \o TimingA \o s \o a \o b \o Tail2 : s \in Slots, a \in Fixed, b \in Fixed}
    \cup {SampleHead \o TimingA \o a \o s \o b \o Tail2 : s \in Slots, a \in Fixed, b \in Fixed}
    \cup {SampleHead \o TimingA \o a \o b \o s \o Tail2 : s \in Slots, a \in Fixed, b \in Fixed}

\* Blocks whose header varies: each header byte changed in turn.
HeaderInputs ==
    {With(Sample, i, v) : i \in 1..8, v \in {0, 1, 255}}

\* Blocks whose fields before the slots vary: the video input and DPMS
\* bytes, the sizes and gamma, the established-timing bits, the
\* standard-timing entries.
FieldInputs ==
    {With(Sample, 21, v) : v \in {0, 47, 95, 127, 128}}
    \cup {With(With(Sample, 22, w), 23, h) : w \in {0, 33}, h \in {0, 21}}
    \cup {With(With(Sample, 24, 255), 25, v) : v \in {0, 8, 21, 255}}
    \cup {With(With(Sample, 36 + (i \div 8), 2 ^ (i % 8)), 38, v) : i \in 0..15, v \in {0, 128}}
    \cup {With(With(With(Sample, 36, a), 37, b), 38, c) :
              a \in {5, 255}, b \in {160, 255}, c \in {127, 255}}
    \cup {With(With(With(With(Sample, 39 + 2 * k, lo), 40 + 2 * k, hi), 53, 0), 54, 1) :
              k \in {0, 7}, lo \in {1, 0, 255}, hi \in {1, 64, 255}}

\* Blocks cut short or followed by more bytes.
LengthInputs ==
    {SubSeq(Sample \o Fill(MaxTrailing, 7), 1, n) : n \in 0..(128 + MaxTrailing)}

Inputs == SlotInputs \cup HeaderInputs \cup FieldInputs \cup LengthInputs

\* The sizes of the scripted chunks: one ends inside the header's second
\* word, the other inside the first slot.
ChunkSizes == {6, 57}

RECURSIVE ChunksOfLen(_)
ChunksOfLen(n) ==
    IF n = 0 THEN {<<>>}
    ELSE {<<c>> \o p : c \in ChunkSizes, p \in ChunksOfLen(n - 1)}

\* Scripts of up to MaxPlan chunks.
ChunkPlans == UNION {ChunksOfLen(n) : n \in 0..MaxPlan}

\* Scripts of chunks that may end with a failing or a zero-length read
\* (parse polls the source no more after either).
Plans == {p \o e : p \in ChunkPlans, e \in {<<>>, <<Fail>>, <<0>>}}

\* ------------------------------------------------------------ state

VARIABLES
    reader,           \* the Reader (with the source it reads from)
    overflow_checks,  \* the build: panics on integer overflow, or wraps
    pc,               \* the statement of EDID::parse to run next
    product, version, display, color, timings,   \* EDID::parse's locals
    locals,           \* MonitorDescriptors::parse's locals
    pass,             \* passes of MonitorDescriptors::parse's loop done
    result,           \* what parse returned
    first_failure,    \* history: the first failed step's result
    previous,         \* what the call of parse before this one returned
    began             \* history: the bytes taken when the latest pass over a
                      \* slot began (-1: no pass yet)

vars == <<reader, overflow_checks, pc, product, version, display, color,
          timings, locals, pass, result, first_failure, previous, began>>

\* A local not assigned yet.
Unset == [unset |-> TRUE]

Running == [status |-> "running", err |-> "", fault |-> "", edid |-> Unset]

\* What the caller gets from a failed step: Err(msg), or a panic.
Failure(res) ==
    [status |-> IF res.fault # "" THEN "panic" ELSE "err",
     err |-> res.err, fault |-> res.fault, edid |-> Unset]

\* History: no step has failed; and a step's failure with the bytes taken and
\* the reads made when it failed.
NoFailure == [failed |-> FALSE]

FirstFailure(res) ==
    [failed |-> TRUE, returned |-> Failure(res),
     taken |-> res.r.taken, polls |-> res.r.polls]

\* No call of parse before this one.
NoCall == [status |-> "none", err |-> "", fault |-> "", edid |-> Unset]

\* The start of a call of parse on a source holding data, read as plan says.
Start(data, plan) ==
    /\ reader = Reader_new(data, plan)
    /\ overflow_checks \in BOOLEAN
    /\ pc = "header1"
    /\ product = Unset /\ version = Unset /\ display = Unset
    /\ color = Unset /\ timings = Unset /\ locals = Unset
    /\ pass = 0
    /\ result = Running
    /\ first_failure = NoFailure
    /\ previous = NoCall
    /\ began = -1

Init == \E data \in Inputs, plan \in Plans : Start(data, plan)

\* C10 mutant: a step's failure is ignored.
Try_ignoring(res, next) == pc' = next /\ UNCHANGED result

\* The ? operator on a step's result: go on to `next`, or return the failure.
Try(res, next) ==
    IF res.ok THEN pc' = next /\ UNCHANGED result
    ELSE pc' = "done" /\ result' = Failure(res)

\* History: remember the first step that failed.
Observe(res) ==
    first_failure' = IF ~res.ok /\ first_failure = NoFailure THEN FirstFailure(res)
                     ELSE first_failure

ParseHeader1 ==
    /\ pc = "header1"
    /\ \E res \in {Header1_parse(reader)} :
           reader' = res.r /\ Try(res, "header2") /\ Observe(res)
    /\ UNCHANGED <<overflow_checks, product, version, display, color, timings,
                   locals, pass, previous, began>>

ParseHeader2 ==
    /\ pc = "header2"
    /\ \E res \in {Header2_parse(reader)} :
           reader' = res.r /\ Try(res, "product") /\ Observe(res)
    /\ UNCHANGED <<overflow_checks, product, version, display, color, timings,
                   locals, pass, previous, began>>

ParseProduct ==
    /\ pc = "product"
    /\ \E res \in {ProductInformation_parse(reader)} :
           /\ reader' = res.r /\ Try(res, "version") /\ Observe(res)
           /\ product' = IF res.ok THEN res.val ELSE product
    /\ UNCHANGED <<overflow_checks, version, display, color, timings, locals, pass, previous, began>>

ParseVersion ==
    /\ pc = "version"
    /\ \E res \in {Version_parse(reader)} :
           /\ reader' = res.r /\ Try(res, "display") /\ Observe(res)
           /\ version' = IF res.ok THEN res.val ELSE version
    /\ UNCHANGED <<overflow_checks, product, display, color, timings, locals, pass, previous, began>>

ParseDisplay ==
    /\ pc = "display"
    /\ \E res \in {DisplayParameters_parse(reader)} :
           /\ reader' = res.r /\ Try(res, "color") /\ Observe(res)
           /\ display' = IF res.ok THEN res.val ELSE display
    /\ UNCHANGED <<overflow_checks, product, version, color, timings, locals, pass, previous, began>>

ParseColor ==
    /\ pc = "color"
    /\ \E res \in {ColorCharacteristics_parse(reader)} :
           /\ reader' = res.r /\ Try(res, "timings") /\ Observe(res)
           /\ color' = IF res.ok THEN res.val ELSE color
    /\ UNCHANGED <<overflow_checks, product, version, display, timings, locals, pass, previous, began>>

ParseTimings ==
    /\ pc = "timings"
    /\ \E res \in {Timings_parse(reader)} :
           /\ reader' = res.r /\ Try(res, "first_slot") /\ Observe(res)
           /\ timings' = IF res.ok THEN res.val ELSE timings
    /\ UNCHANGED <<overflow_checks, product, version, display, color, locals, pass, previous, began>>

ParseFirstSlot ==
    /\ pc = "first_slot"
    /\ \E res \in {FirstSlot_parse(reader, overflow_checks)} :
           /\ reader' = res.r /\ Try(res, "slots") /\ Observe(res)
           /\ locals' = IF res.ok THEN res.val ELSE locals
    /\ began' = reader.taken
    /\ UNCHANGED <<overflow_checks, product, version, display, color, timings, pass, previous>>

ParseSlot ==
    /\ pc = "slots"
    /\ \E res \in {Slot_parse(reader, overflow_checks, locals)} :
           /\ reader' = res.r
           /\ Try(res, IF pass + 1 = 3 THEN "finish" ELSE "slots")
           /\ Observe(res)
           /\ locals' = IF res.ok THEN res.val ELSE locals
    /\ pass' = pass + 1
    /\ began' = reader.taken
    /\ UNCHANGED <<overflow_checks, product, version, display, color, timings,
                   previous>>

Finish ==
    /\ pc = "finish"
    /\ \E res \in {Finish_parse(reader, product, version, display, color, timings, locals)} :
           /\ reader' = res.r
           /\ Observe(res)
           /\ pc' = "done"
           /\ result' = IF res.ok
                        THEN [status |-> "ok", err |-> "", fault |-> "", edid |-> res.val]
                        ELSE Failure(res)
    /\ UNCHANGED <<overflow_checks, product, version, display, color, timings,
                   locals, pass, previous, began>>

Next ==
    \/ ParseHeader1 \/ ParseHeader2 \/ ParseProduct \/ ParseVersion
    \/ ParseDisplay \/ ParseColor \/ ParseTimings
    \/ ParseFirstSlot \/ ParseSlot \/ Finish

Spec == Init /\ [][Next]_vars

\* A second call of parse, on a source holding the same bytes and cutting
\* them into chunks its own way.
ParseAgain ==
    /\ pc = "done"
    /\ previous = NoCall
    /\ \E plan \in ChunkPlans : reader' = Reader_new(reader.value.data, plan)
    /\ previous' = result
    /\ result' = Running
    /\ first_failure' = NoFailure
    /\ pc' = "header1"
    /\ product' = Unset /\ version' = Unset /\ display' = Unset
    /\ color' = Unset /\ timings' = Unset /\ locals' = Unset
    /\ pass' = 0
    /\ began' = -1
    /\ UNCHANGED overflow_checks

\* The blocks parsed twice.
TwiceInputs ==
    HeaderInputs \cup FieldInputs \cup LengthInputs
    \cup {SampleHead \o TimingA \o s \o Name \o PadZero \o Tail2 : s \in Slots}

InitTwice == \E data \in TwiceInputs, plan \in ChunkPlans : Start(data, plan)

NextTwice == Next \/ ParseAgain

SpecTwice == InitTwice /\ [][NextTwice]_vars


\* ------------------------------------------------------------ the claims' terms

\* v bound to the value of an expression evaluated once.
Let(v, K(_)) == CHOOSE y \in {K(x) : x \in {v}} : TRUE

\* The bytes the source holds, and its byte at offset off (from 0).
Data == reader.value.data

ByteAt(off) == Data[off + 1]

\* The number of bytes a source has delivered once it is read until a read
\* fails or delivers nothing.
RECURSIVE Deliverable(_)
Deliverable(value) ==
    Let(Source_read(value, BufSize), LAMBDA rd :
        IF ~rd.some \/ rd.num = 0 THEN value.pos ELSE Deliverable(rd.value))

\* The source delivers the input's first n bytes (if read that far).
Delivers(n) ==
    Deliverable([reader.value EXCEPT !.pos = 0, !.plan = reader.value.script]) >= n

\* The passes over the slots that have ended.
Passes == IF locals = Unset THEN <<>> ELSE locals.slots

\* parse has returned a failure of the pass over the first slot / of a pass
\* of the loop; `began` is where that pass began.
FirstSlotFailed == pc = "done" /\ began >= 0 /\ locals = Unset

LoopPassFailed ==
    pc = "done" /\ result.status # "ok" /\ locals # Unset /\ Len(locals.slots) < 4

\* The slot at offset off begins with a zero 16-bit word.
ZeroWordAt(off) == ByteAt(off) = 0 /\ ByteAt(off + 1) = 0

\* The 13 payload bytes of the slot at offset off.
Payload(off) == SubSeq(Data, off + 6, off + 18)

\* ------------------------------------------------------------ C1

\* The 8-byte header.
Magic == <<0, 255, 255, 255, 255, 255, 255, 0>>

\* C1: whenever the source delivers at least 8 bytes and the first 8 differ
\* from 00 FF FF FF FF FF FF 00, parse fails with "Invalid header." and has
\* taken no byte after the header; when the mismatch is in bytes 0-3 it has
\* taken those four bytes only.
C1_InvalidHeaderFailsFast ==
    (pc = "done" /\ Delivers(8) /\ SubSeq(Data, 1, 8) # Magic) =>
        /\ result.status = "err"
        /\ result.err = "Invalid header."
        /\ reader.taken = IF SubSeq(Data, 1, 4) # SubSeq(Magic, 1, 4) THEN 4 ELSE 8

\* C1 witness: a block whose first word is wrong was rejected after 4 bytes.
C1_Witness ==
    /\ pc = "done" /\ Delivers(8)
    /\ SubSeq(Data, 1, 4) # SubSeq(Magic, 1, 4)
    /\ result.err = "Invalid header."
    /\ reader.taken = 4

\* ------------------------------------------------------------ C2

\* C2: whatever the input and the source do, parse returns a record or an
\* error; it never ends in a panic.
C2_NeverPanics == result.status # "panic"

\* ------------------------------------------------------------ C3

\* The 12 bytes at offset off are those of a timing slot (nonzero pixel
\* clock and horizontal active) whose blanking is less than sync width plus
\* front porch, horizontally or vertically.
UnderflowAt(off) ==
    LET b == SubSeq(Data, off + 1, off + 12)
        hblank == b[4] + Bits(b[5], 0, 4) * 256
        hfront == b[9] + Bits(b[12], 6, 2) * 256
        hsync  == b[10] + Bits(b[12], 4, 2) * 256
        vblank == b[7] + Bits(b[8], 0, 4) * 256
        vfront == Bits(b[11], 4, 4) + Bits(b[12], 2, 2) * 16
        vsync  == Bits(b[11], 0, 4) + Bits(b[12], 0, 2) * 16
    IN  /\ b[1] + b[2] # 0
        /\ b[3] + Bits(b[5], 4, 4) # 0
        /\ hblank < hsync + hfront \/ vblank < vsync + vfront

\* C3: a timing slot whose blanking is less than sync width plus front porch
\* makes parse fail with the MalformedTimingGeometry error: no pass over
\* such a slot ends with a DetailedTiming, and the pass that decodes one
\* fails with that error.
C3_UnderflowIsRejected ==
    /\ \A k \in DOMAIN Passes :
           Passes[k].timing => ~UnderflowAt(Passes[k].start)
    /\ ((FirstSlotFailed \/ LoopPassFailed) /\ Delivers(began + 18)
            /\ UnderflowAt(began)) =>
           result.status = "err" /\ result.err = "MalformedTimingGeometry"

\* ------------------------------------------------------------ C4

\* C4: a pass of the loop (slots 1 to 3) over a slot whose leading word is
\* zero reads the slot's fourth byte as the descriptor tag and adds no
\* DetailedTiming (the list holds one timing per pass that took the timing
\* branch), and if it fails it is not in the timing arithmetic; the pass over
\* slot 0 never succeeds on a zero leading word, and with the slot's first
\* three bytes taken it fails with "Expected detailed timing block.".
C4_SentinelDispatch ==
    /\ \A k \in 2..Len(Passes) :
           ZeroWordAt(Passes[k].start) =>
               ~Passes[k].timing /\ Passes[k].tag = ByteAt(Passes[k].start + 3)
    /\ locals # Unset =>
           Len(locals.detailed_timings) =
               Cardinality({k \in DOMAIN Passes : Passes[k].timing})
    /\ (LoopPassFailed /\ reader.taken >= began + 3 /\ ZeroWordAt(began)) =>
           result.fault = ""
    /\ Len(Passes) >= 1 => ~ZeroWordAt(Passes[1].start)
    /\ (FirstSlotFailed /\ reader.taken >= began + 3 /\ ZeroWordAt(began)) =>
           /\ result.status = "err"
           /\ result.err = "Expected detailed timing block."
           /\ reader.taken = began + 3

\* C4 witness: parse succeeded after a pass of the loop over a slot with a
\* zero leading word, which read the tag of a monitor name.
C4_Witness ==
    /\ pc = "done" /\ result.status = "ok"
    /\ \E k \in 2..Len(Passes) :
           /\ ZeroWordAt(Passes[k].start)
           /\ ~Passes[k].timing /\ Passes[k].tag = 252

\* ------------------------------------------------------------ C5

\* C5: a pass over a slot with tag 0x10 adds no entry to any list and takes
\* the slot's 18 bytes, so that the next pass begins 18 bytes after the
\* slot's start.
C5_PaddingTakesItsSlot ==
    /\ \A k \in 2..Len(Passes) :
           Passes[k].tag = 16 => Passes[k].end = Passes[k].start + 18
    /\ locals # Unset =>
           Len(locals.monitor_descriptors) =
               Cardinality({k \in DOMAIN Passes :
                               ~Passes[k].timing /\ Passes[k].tag \notin {16, 250, 251}})

\* ------------------------------------------------------------ C6

\* The resolution and refresh rate the n 2-byte entries from offset off
\* stand for: none for an entry (0x01, 0x01), (byte0 + 31) * 8 and
\* (byte1 & 0x3F) + 60 for any other.
RECURSIVE EntriesAt(_, _)
EntriesAt(off, n) ==
    IF n = 0 THEN <<>>
    ELSE (IF ByteAt(off) = 1 /\ ByteAt(off + 1) = 1 THEN <<>>
          ELSE <<[horizontal_resolution |-> (ByteAt(off) + 31) * 8,
                  refresh_rate |-> (ByteAt(off + 1) % 64) + 60]>>)
         \o EntriesAt(off + 2, n - 1)

\* The entries of the 0xFA descriptors among the passes from pass k on.
RECURSIVE DescriptorEntries(_)
DescriptorEntries(k) ==
    IF k > Len(Passes) THEN <<>>
    ELSE (IF Passes[k].tag = 250 THEN EntriesAt(Passes[k].start + 5, 6) ELSE <<>>)
         \o DescriptorEntries(k + 1)

\* A list of StandardTiming values without their aspect ratios.
Rates(list) ==
    [i \in DOMAIN list |->
        [horizontal_resolution |-> list[i].horizontal_resolution,
         refresh_rate |-> list[i].refresh_rate]]

\* C6: the standard timings of the base block's 8 entries (offset 38), and
\* those of the 6 entries of the 0xFA descriptors decoded, are one value per
\* entry other than (0x01, 0x01), in the entries' order, with
\* horizontal_resolution = (byte0 + 31) * 8 and
\* refresh_rate = (byte1 & 0x3F) + 60.
C6_StandardTimingEntries ==
    /\ timings # Unset => Rates(timings.standard_timings) = EntriesAt(38, 8)
    /\ locals # Unset => Rates(locals.standard_timings) = DescriptorEntries(1)

\* C6 witness: a 0xFA descriptor with two unused entries and four others was
\* decoded.
C6_Witness ==
    /\ pc = "done" /\ result.status = "ok"
    /\ \E k \in DOMAIN Passes :
           /\ Passes[k].tag = 250
           /\ ByteAt(Passes[k].start + 7) = 1 /\ ByteAt(Passes[k].start + 8) = 1
    /\ Len(locals.standard_timings) = 4

\* ------------------------------------------------------------ C7

TextTags == {252, 254, 255}

\* Payload p holds 0x0A, and the index (from 0) of its first 0x0A.
Terminated(p) == \E i \in 1..13 : p[i] = 10

Terminator(p) == (CHOOSE i \in 1..13 : p[i] = 10 /\ \A j \in 1..(i - 1) : p[j] # 10) - 1

\* Every byte of p after its first 0x0A is 0x20.
Padded(p) == \A i \in (Terminator(p) + 2)..13 : p[i] = 32

\* The number of descriptors pushed by the passes up to pass k.
Pushed(k) ==
    Cardinality({j \in 1..k : ~Passes[j].timing /\ Passes[j].tag \notin {16, 250, 251}})

\* C7: a pass over a text descriptor (tag 0xFC, 0xFE or 0xFF) whose payload
\* holds 0x0A at index n succeeds only if every byte after it is 0x20, and
\* then pushes the n bytes before the 0x0A as its text; with the slot's
\* bytes delivered it fails only if some byte after the 0x0A is not 0x20,
\* and then with "Expected 0x20 in monitor descriptor.".
C7_TextPadding ==
    /\ \A k \in 2..Len(Passes) :
           (Passes[k].tag \in TextTags /\ Passes[k].start + 18 <= Len(Data)
                /\ Terminated(Payload(Passes[k].start))) =>
               /\ Padded(Payload(Passes[k].start))
               /\ locals.monitor_descriptors[Pushed(k)].text =
                      SubSeq(Payload(Passes[k].start), 1,
                             Terminator(Payload(Passes[k].start)))
               /\ Passes[k].end = Passes[k].start + 18
    /\ (LoopPassFailed /\ Delivers(began + 18) /\ ZeroWordAt(began)
            /\ ByteAt(began + 3) \in TextTags /\ Terminated(Payload(began))) =>
           /\ ~Padded(Payload(began))
           /\ result.status = "err"
           /\ result.err = "Expected 0x20 in monitor descriptor."

\* C7 witness: a text descriptor with a byte other than 0x20 after its 0x0A
\* was refused.
C7_Witness ==
    /\ LoopPassFailed /\ Delivers(began + 18) /\ ZeroWordAt(began)
    /\ ByteAt(began + 3) \in TextTags /\ Terminated(Payload(began))
    /\ Terminator(Payload(began)) < 12
    /\ result.err = "Expected 0x20 in monitor descriptor."

\* ------------------------------------------------------------ C8

\* The flags word: the little-endian 16-bit word at offset 35; and the byte
\* after it.
FlagsWord == ByteAt(35) + ByteAt(36) * 256

\* The modes of list that the bits of FlagsWord select, bit i the i-th, from
\* bit i on, and 1152x870@75 for bit 7 of the following byte.
RECURSIVE SelectedFrom(_, _)
SelectedFrom(list, i) ==
    IF i = 16 THEN (IF Bit(ByteAt(37), 7) THEN <<"H1152V870F75">> ELSE <<>>)
    ELSE (IF Bit(FlagsWord, i) THEN <<list[i + 1]>> ELSE <<>>)
         \o SelectedFrom(list, i + 1)

\* The catalogue in the order 720x400@70, 720x400@88, 640x480@60/67/72/75,
\* 800x600@56/60/72/75, 832x624@75, 1024x768@87/60/70/75, 1280x1024@75.
CatalogueOrder ==
    <<"H720V400F70", "H720V400F88", "H640V480F60", "H640V480F67",
      "H640V480F72", "H640V480F75", "H800V600F56", "H800V600F60",
      "H800V600F72", "H800V600F75", "H832V624F75", "H1024V768F87",
      "H1024V768F60", "H1024V768F70", "H1024V768F75", "H1280V1024F75">>

\* The order of the bits: 800x600@60/56, 640x480@75/72/67/60, 720x400@88/70
\* for bits 0 to 7 (the first byte), 1280x1024@75, 1024x768@75/70/60/87,
\* 832x624@75, 800x600@75/72 for bits 8 to 15 (the second byte).
BitOrder ==
    <<"H800V600F60", "H800V600F56", "H640V480F75", "H640V480F72",
      "H640V480F67", "H640V480F60", "H720V400F88", "H720V400F70",
      "H1280V1024F75", "H1024V768F75", "H1024V768F70", "H1024V768F60",
      "H1024V768F87", "H832V624F75", "H800V600F75", "H800V600F72">>

\* A list without duplicates.
Distinct(list) == \A i, j \in DOMAIN list : list[i] = list[j] => i = j

\* C8 as stated: bit i of the flags word selects the i-th mode of the
\* catalogue in the order 720x400@70, ..., 1280x1024@75, then 1152x870@75;
\* the list holds exactly the selected modes, in that order, without
\* duplicates.
C8_CatalogueOrder ==
    timings # Unset =>
        /\ timings.established_timings = SelectedFrom(CatalogueOrder, 0)
        /\ Distinct(timings.established_timings)

\* C8 amended: bit i of the flags word selects the i-th mode of the order
\* 800x600@60, 800x600@56, 640x480@75/72/67/60, 720x400@88/70,
\* 1280x1024@75, 1024x768@75/70/60/87, 832x624@75, 800x600@75/72, then
\* 1152x870@75 for bit 7 of the following byte; the list holds exactly the
\* selected modes, in that order, without duplicates.
C8_BitOrder ==
    timings # Unset =>
        /\ timings.established_timings = SelectedFrom(BitOrder, 0)
        /\ Distinct(timings.established_timings)

\* C8 witness: a block with bit 0 and other bits set was decoded, its list
\* beginning with 800x600@60.
C8_Witness ==
    /\ timings # Unset
    /\ Bit(FlagsWord, 0)
    /\ Len(timings.established_timings) >= 3
    /\ timings.established_timings[1] = "H800V600F60"

\* ------------------------------------------------------------ C9

\* C9: a second call of parse on the same bytes, whatever non-zero chunks of
\* at most 128 bytes either source cuts them into, returns what the first
\* call returned: the same record, or the same error.
C9_SameOutcome ==
    (previous # NoCall /\ pc = "done") => result = previous

\* C9 witness: the second call, whose source delivered the block in two
\* chunks, returned a record as the first did.
C9_Witness ==
    /\ previous # NoCall /\ previous.status = "ok"
    /\ pc = "done" /\ result.status = "ok"
    /\ reader.value.script # <<>> /\ reader.polls = 2

\* ------------------------------------------------------------ C10

\* C10: once a step has failed parse has returned, and returned that step's
\* failure, with no byte taken and no read of the source since; parse
\* returns a record only when no step has failed and every part is decoded.
C10_FailFast ==
    /\ first_failure.failed =>
           /\ pc = "done"
           /\ result = first_failure.returned
           /\ reader.taken = first_failure.taken
           /\ reader.polls = first_failure.polls
    /\ (result.status = "ok") = (pc = "done" /\ ~first_failure.failed)
    /\ result.status = "ok" =>
           /\ Unset \notin {product, version, display, color, timings, locals}
           /\ Len(Passes) = 4
           /\ result.edid # Unset

\* C10 witness: parse returned an error while the source had delivered bytes
\* that were never taken.
C10_Witness ==
    /\ pc = "done" /\ first_failure.failed
    /\ result.status = "err"
    /\ reader.taken > 8 /\ Len(reader.buffer) > 0

\* ------------------------------------------------------------ C11

\* C11: parse of the sample block of src/examples/sample.rs, from a source
\* that delivers it, returns a record with manufacturer units (4, 0, 6),
\* product code 40994, serial number 0, week 4 of 2013, version 1.4, a
\* digital input with dfp_compatible, a maximum size of (33, 21),
\* preferred_timing_mode set and default_srgb not, no established and no
\* standard timings, one detailed timing (pixel clock 337750000, active
\* (2880, 1800), front porch (48, 3), sync length (32, 6), back porch
\* (80, 43), not interlaced, separate sync with horizontal positive and
\* vertical negative), the descriptors MonitorName("Color LCD") and
\* ManufacturerDefined(0, ..), and 0 extensions.
C11_GoldenFixture ==
    (pc = "done" /\ Data = Sample /\ Delivers(128)) =>
        /\ result.status = "ok"
        /\ LET e == result.edid
               t == e.timings.detailed_timings
           IN  /\ e.product.manufacturer_id = <<4, 0, 6>>
               /\ e.product.product_code = 40994
               /\ e.product.serial_number = <<0, 0>>
               /\ e.product.manufacture_date = [week |-> 4, year |-> 2013]
               /\ e.version = [version |-> 1, revision |-> 4]
               /\ e.display.input = [kind |-> "Digital", dfp_compatible |-> TRUE]
               /\ e.display.max_size = [some |-> TRUE, width |-> 33, height |-> 21]
               /\ e.display.dpms.preferred_timing_mode
               /\ ~e.display.dpms.default_srgb
               /\ e.timings.established_timings = <<>>
               /\ e.timings.standard_timings = <<>>
               /\ Len(t) = 1
               /\ t[1].pixel_clock = 337750000
               /\ t[1].active = <<2880, 1800>>
               /\ t[1].front_porch = <<48, 3>>
               /\ t[1].sync_length = <<32, 6>>
               /\ t[1].back_porch = <<80, 43>>
               /\ ~t[1].interlaced
               /\ t[1].sync_type = [kind |-> "Seperate", vertical |-> "Negative",
                                    horizontal |-> "Positive"]
               /\ Len(e.descriptors) = 2
               /\ e.descriptors[1] =
                      [kind |-> "MonitorName",
                       text |-> <<67, 111, 108, 111, 114, 32, 76, 67, 68>>]
               /\ e.descriptors[2].kind = "ManufacturerDefined"
               /\ e.descriptors[2].tag = 0
               /\ e.extensions = 0

\* C11 witness: the sample block, delivered in two chunks, was decoded.
C11_Witness ==
    /\ pc = "done" /\ Data = Sample /\ Delivers(128)
    /\ result.status = "ok" /\ reader.polls = 2

\* ------------------------------------------------------------ C12

\* C12: after a read of the source that delivered no byte parse has failed
\* with "Unexpectedly out of data!", after a read that failed it has failed
\* with "Error reading data!", and in both cases get has returned no byte
\* since (the bytes taken are the bytes delivered before); get never returns
\* more bytes than the source has delivered, so parse returns a record only
\* if the input holds every byte it took.
C12_EndOfData ==
    /\ reader.last = 0 =>
           /\ pc = "done" /\ result.status = "err"
           /\ result.err = "Unexpectedly out of data!"
           /\ reader.taken = reader.value.pos
    /\ reader.last = Fail =>
           /\ pc = "done" /\ result.status = "err"
           /\ result.err = "Error reading data!"
           /\ reader.taken = reader.value.pos
    /\ reader.taken <= reader.value.pos
    /\ reader.value.pos <= Len(Data)
    /\ (pc = "done" /\ result.err = "Unexpectedly out of data!") => reader.last = 0
    /\ (pc = "done" /\ result.err = "Error reading data!") => reader.last = Fail
    /\ result.status = "ok" => reader.last > 0 /\ reader.taken <= Len(Data)

\* C12 witness: parse of a block cut short took all its bytes and failed at
\* the read that delivered none.
C12_Witness ==
    /\ pc = "done" /\ reader.last = 0
    /\ Len(Data) \in 9..113 /\ reader.taken = Len(Data)
    /\ result.err = "Unexpectedly out of data!"

\* ------------------------------------------------------------ C13

\* The offsets of the block's four 18-byte slots.
SlotOffsets == <<54, 72, 90, 108>>

\* The pixel clock of the slot at offset off, and its tag.
ClockAt(off) == (ByteAt(off) + ByteAt(off + 1) * 256) * 10000

TagAt(off) == ByteAt(off + 3)

\* The kind of descriptor a slot with tag `tag` stands for.
KindOf(tag) ==
    CASE tag <= 15 -> "ManufacturerDefined"
      [] tag \in 17..249 -> "Undefined"
      [] tag = 253 -> "RangeLimits"
      [] tag \in {252, 254, 255} -> TextKind(tag)

\* From slot k on, in slot order: the pixel clocks of the timing slots; the
\* entries of the 0xFA descriptors; the kinds of the slots that are neither
\* timings, padding, 0xFA nor 0xFB; the nonzero indices of the 0xFB
\* descriptors' entries up to the first index 0.
RECURSIVE SlotClocks(_)
SlotClocks(k) ==
    IF k > 4 THEN <<>>
    ELSE (IF ClockAt(SlotOffsets[k]) # 0 THEN <<ClockAt(SlotOffsets[k])>> ELSE <<>>)
         \o SlotClocks(k + 1)

RECURSIVE SlotEntries(_)
SlotEntries(k) ==
    IF k > 4 THEN <<>>
    ELSE (IF ClockAt(SlotOffsets[k]) = 0 /\ TagAt(SlotOffsets[k]) = 250
          THEN EntriesAt(SlotOffsets[k] + 5, 6) ELSE <<>>)
         \o SlotEntries(k + 1)

RECURSIVE SlotKinds(_)
SlotKinds(k) ==
    IF k > 4 THEN <<>>
    ELSE (IF ClockAt(SlotOffsets[k]) = 0 /\ TagAt(SlotOffsets[k]) \notin {16, 250, 251}
          THEN <<KindOf(TagAt(SlotOffsets[k]))>> ELSE <<>>)
         \o SlotKinds(k + 1)

RECURSIVE SlotIndices(_)
SlotIndices(k) ==
    IF k > 4 THEN <<>>
    ELSE (IF ClockAt(SlotOffsets[k]) = 0 /\ TagAt(SlotOffsets[k]) = 251
          THEN (IF ByteAt(SlotOffsets[k] + 5) = 0 THEN <<>>
                ELSE <<ByteAt(SlotOffsets[k] + 5)>>
                     \o (IF ByteAt(SlotOffsets[k] + 10) = 0 THEN <<>>
                         ELSE <<ByteAt(SlotOffsets[k] + 10)>>))
          ELSE <<>>)
         \o SlotIndices(k + 1)

\* The nonzero elements of a list of numbers.
RECURSIVE NonZero(_, _)
NonZero(list, i) ==
    IF i > Len(list) THEN <<>>
    ELSE (IF list[i] # 0 THEN <<list[i]>> ELSE <<>>) \o NonZero(list, i + 1)

\* C13: in a record returned for a whole block, detailed_timings holds the
\* timings of the timing slots in slot order, slot 0's first (1 to 4 in
\* all); standard_timings the base entries and then the entries of the 0xFA
\* slots in slot order; white_points the entries of the 0xFB slots in slot
\* order; descriptors one descriptor for each other slot that is neither a
\* timing nor padding, in slot order.
C13_MergeOrder ==
    (pc = "done" /\ result.status = "ok" /\ Len(Data) >= 128) =>
        LET e == result.edid
        IN  /\ Len(e.timings.detailed_timings) \in 1..4
            /\ [i \in DOMAIN e.timings.detailed_timings |->
                   e.timings.detailed_timings[i].pixel_clock] = SlotClocks(1)
            /\ Rates(e.timings.standard_timings) = EntriesAt(38, 8) \o SlotEntries(1)
            /\ NonZero([i \in DOMAIN e.color.white_points |->
                           e.color.white_points[i].index], 1) = SlotIndices(1)
            /\ [i \in DOMAIN e.descriptors |-> e.descriptors[i].kind] = SlotKinds(1)

\* ------------------------------------------------------------ C14

\* C14: a pass of the loop over a slot whose leading word is not zero takes
\* the timing branch (it adds a DetailedTiming and reads no descriptor tag),
\* whatever the slot's other bytes are, and the pass over a slot 0 whose
\* leading word is not zero never fails with "Expected detailed timing
\* block.".
C14_NonzeroClockIsTiming ==
    /\ \A k \in 2..Len(Passes) :
           ~ZeroWordAt(Passes[k].start) =>
               Passes[k].timing /\ Passes[k].tag = -1
    /\ (FirstSlotFailed /\ reader.taken >= began + 2 /\ ~ZeroWordAt(began)) =>
           result.err # "Expected detailed timing block."

\* ------------------------------------------------------------ C15

\* The pass that began at offset off is over a 0xFB descriptor: zero leading
\* word, tag byte 0xFB, and the slot's 18 bytes are in the input.
WhiteSlotAt(off) ==
    /\ off >= 0
    /\ off + 18 <= Len(Data)
    /\ ZeroWordAt(off)
    /\ ByteAt(off + 3) = 251

\* The payload of the slot at off has 0x0A, 0x20, 0x20 as bytes 10, 11, 12.
WhiteTail(off) ==
    /\ Payload(off)[11] = 10
    /\ Payload(off)[12] = 32
    /\ Payload(off)[13] = 32

\* C15: a pass that decodes a 0xFB descriptor without error ends 18 bytes
\* after the slot's start (it takes the 13 payload bytes and none of the
\* next slot), and the bytes it found to be 0x0A, 0x20, 0x20 are the
\* payload's bytes 10, 11 and 12, whether the first entry's index is 0, the
\* first is not and the second is, or neither is; so a pass over a 0xFB
\* descriptor with those three payload bytes is never refused by a check of
\* the descriptor, and a refused one has taken no byte past the slot.
C15_WhitePointLayout ==
    /\ \A k \in 2..Len(Passes) :
           Passes[k].tag = 251 =>
               /\ Passes[k].end = Passes[k].start + 18
               /\ WhiteTail(Passes[k].start)
    /\ (LoopPassFailed /\ WhiteSlotAt(began) /\ reader.last > 0) =>
           /\ ~WhiteTail(began)
           /\ reader.taken <= began + 18

\* ------------------------------------------------------------ C16

\* Every pass took the 18 bytes of its own slot.
Aligned ==
    /\ Len(Passes) = 4
    /\ \A k \in 1..4 :
           Passes[k].start = SlotOffsets[k] /\ Passes[k].end = SlotOffsets[k] + 18

\* C16: in a record returned for a whole block whose passes each took their
\* own slot, the indices of white_points are, slot by slot, the nonzero
\* indices of each 0xFB descriptor's entries that come before its first
\* entry of index 0: an entry of index 0 is not in the list.
C16_WhitePointCount ==
    (pc = "done" /\ result.status = "ok" /\ Len(Data) >= 128 /\ Aligned) =>
        [i \in DOMAIN result.edid.color.white_points |->
            result.edid.color.white_points[i].index] = SlotIndices(1)

\* ------------------------------------------------------------ C17

\* C17: whenever parse returns a record, exactly 127 bytes have been taken
\* (the 128th, the checksum, has not), the four passes began at offsets 54,
\* 72, 90 and 108, extensions is the input's byte at offset 126, and no byte
\* at offset 128 or beyond has been taken.
C17_Framing ==
    (pc = "done" /\ result.status = "ok") =>
        /\ reader.taken = 127
        /\ Len(Passes) = 4
        /\ \A k \in 1..4 : Passes[k].start = SlotOffsets[k]
        /\ result.edid.extensions = ByteAt(126)
        /\ reader.taken <= 128

\* ------------------------------------------------------------ C18

\* The Reader on its own: a client (EDID::parse and the parsers it calls,
\* on a Reader made by Reader::new) calls read_u8, read_u16 and read_u32 in
\* any order, and may call again after a call has failed, as a second
\* EDID::parse on the same Reader does.

\* Most reads a source's plan scripts, and most polls of a source a run
\* makes.
MaxReads == 2

MaxPolls == 4

\* What a scripted read may do: fail, deliver nothing, or deliver up to 1,
\* 3 or 200 bytes (more than the buffer holds).
ReaderChunks == {Fail, 0, 1, 3, 200}

RECURSIVE ReaderPlansOfLen(_)
ReaderPlansOfLen(n) ==
    IF n = 0 THEN {<<>>}
    ELSE {<<c>> \o p : c \in ReaderChunks, p \in ReaderPlansOfLen(n - 1)}

ReaderPlans == UNION {ReaderPlansOfLen(n) : n \in 0..MaxReads}

\* The bytes the sources hold: short ones, and one longer than the buffer.
ReaderInputs ==
    {<<>>, <<17>>, <<17, 34, 51, 68, 85>>, <<1, 0, 0, 2, 255, 255, 3>>,
     Sample \o <<7, 9>>}

\* What the latest call returned: Ok(val) or Err(err).
Called(name, res) ==
    [status |-> IF res.ok THEN "ok" ELSE "err", err |-> res.err, fault |-> "",
     edid |-> Unset, call |-> name, val |-> res.val]

InitReader ==
    /\ \E data \in ReaderInputs, plan \in ReaderPlans :
           reader = Reader_new(data, plan)
    /\ overflow_checks = FALSE
    /\ pc = "reader"
    /\ product = Unset /\ version = Unset /\ display = Unset
    /\ color = Unset /\ timings = Unset /\ locals = Unset
    /\ pass = 0
    /\ result = [Running EXCEPT !.status = "none"]
    /\ first_failure = NoFailure
    /\ previous = NoCall
    /\ began = -1

CallU8 ==
    /\ pc = "reader"
    /\ reader.polls < MaxPolls
    /\ \E res \in {read_u8(reader)} :
           reader' = res.r /\ result' = Called("read_u8", res)
    /\ UNCHANGED <<overflow_checks, pc, product, version, display, color,
                   timings, locals, pass, first_failure, previous, began>>

CallU16 ==
    /\ pc = "reader"
    /\ reader.polls < MaxPolls
    /\ \E res \in {read_u16(reader)} :
           reader' = res.r /\ result' = Called("read_u16", res)
    /\ UNCHANGED <<overflow_checks, pc, product, version, display, color,
                   timings, locals, pass, first_failure, previous, began>>

CallU32 ==
    /\ pc = "reader"
    /\ reader.polls < MaxPolls
    /\ \E res \in {read_u32(reader)} :
           reader' = res.r /\ result' = Called("read_u32", res)
    /\ UNCHANGED <<overflow_checks, pc, product, version, display, color,
                   timings, locals, pass, first_failure, previous, began>>

NextReader == CallU8 \/ CallU16 \/ CallU32

SpecReader == InitReader /\ [][NextReader]_vars

\* The concatenation of the chunks the source has delivered.
Delivered == SubSeq(Data, 1, reader.value.pos)

\* The i-th byte from the end of the bytes returned (0: the last).
FromEnd(i) == reader.out[Len(reader.out) - i]

\* C18: the bytes get has returned are a prefix of the chunks the source
\* has delivered; the bytes not yet returned all come from the latest chunk
\* (the source is polled only when the buffer is empty); the buffer holds
\* at most 128 bytes; read_u16 returns b0 + 256 * b1 and read_u32 b0 +
\* 256 * b1 + 65536 * b2 + 16777216 * b3 of the bytes it took, wherever the
\* refills fell.
C18_CursorOrder ==
    /\ Len(reader.out) <= Len(Delivered)
    /\ reader.out = SubSeq(Delivered, 1, Len(reader.out))
    /\ reader.last >= 0 => Len(reader.buffer) <= reader.last
    /\ Len(reader.buffer) <= 128
    /\ (pc = "reader" /\ result.status = "ok" /\ result.call = "read_u16") =>
           result.val = FromEnd(1) + 256 * FromEnd(0)
    /\ (pc = "reader" /\ result.status = "ok" /\ result.call = "read_u32") =>
           result.val = <<FromEnd(3) + 256 * FromEnd(2),
                          FromEnd(1) + 256 * FromEnd(0)>>

\* ------------------------------------------------------------ C19

\* The payload of the slot at offset off holds no 0x0A.
Unterminated(off) == \A i \in 1..13 : Payload(off)[i] # 10

\* C19: a completed pass that took the timing branch has taken 18 bytes,
\* and so has a completed pass over a slot with a zero leading word and a
\* tag other than 0x10 and 0xFB: raw data, standard timings, text (with or
\* without a 0x0A among its 13 bytes) and range limits (whatever the
\* selector byte).
C19_SlotSize ==
    \A k \in 1..Len(Passes) :
        /\ Passes[k].timing => Passes[k].end = Passes[k].start + 18
        /\ (/\ ~Passes[k].timing
            /\ ZeroWordAt(Passes[k].start)
            /\ Passes[k].tag \in (0..255) \ {16, 251}) =>
               Passes[k].end = Passes[k].start + 18

\* A text descriptor of 13 characters with no 0x0A has been decoded, and
\* the pass over it took 18 bytes.
C19_Witness ==
    /\ pc = "done"
    /\ result.status = "ok"
    /\ \E k \in 2..Len(Passes) :
           /\ ~Passes[k].timing
           /\ Passes[k].tag \in TextTags
           /\ ZeroWordAt(Passes[k].start)
           /\ Unterminated(Passes[k].start)
           /\ Passes[k].end = Passes[k].start + 18
           /\ \E i \in DOMAIN result.edid.descriptors :
                  /\ result.edid.descriptors[i].kind = TextKind(Passes[k].tag)
                  /\ Len(result.edid.descriptors[i].text) = 13

====
